---- MODULE Spec2Model ----
(***************************************************************************)
(* Mission state machine of scripts/mission7.py (Pitt-RAS/iarc7_abstract). *)
(*                                                                         *)
(* One control thread runs attempt_mission7: takeoff, then the loop        *)
(* {search_for_roomba, track_roomba_to_completion, termination check},     *)
(* then land.  Goals go to the motion planner through one actionlib        *)
(* SimpleActionClient (self._client).  Two subscriber callbacks replace    *)
(* self._avail_roombas and self._odom at any moment.                       *)
(*                                                                         *)
(* Lengths are in units of 0.5 m and distances are compared squared        *)
(* (sqrt is monotone), so d >= MIN_GOTO_DISTANCE is                        *)
(* DistSq >= MIN_GOTO_DISTANCE * MIN_GOTO_DISTANCE.                        *)
(* Roombas and the vehicle move on the line y = 0.                         *)
(***************************************************************************)
EXTENDS Integers, Sequences, FiniteSets, TLC

VARIABLES
    node,               \* the rospy node: safety bond, what __init__ built, shutdown
    pc,                 \* position of the control thread
    error,              \* exception that ended the control thread, or "none"
    goal,               \* the goal the action client currently holds
    status,             \* what self._client.get_state() returns
    avail_roombas,      \* self._avail_roombas (set only by roomba_callback)
    odom,               \* self._odom (set only by odom_callback)
    now,                \* rospy.Time.now(), seconds
    flight_start_time,  \* local of attempt_mission7
    gotten_roombas,     \* local of attempt_mission7
    got_roomba,         \* value returned by track_roomba_to_completion
    search_state,       \* self._search_state
    track_state,        \* local of track_roomba_to_completion
    roomba_id,          \* child_frame_id of the roomba returned by the search
    d,                  \* squared distance computed on the current tick
    last,               \* the step just taken: its name, client calls, prior state
    sweep,              \* history: how the last sweep step ended, and its waypoint
    first_wp,           \* history: waypoint of the first translate goal, -1 if none
    land_count,         \* history: number of land goals submitted (capped)
    after_land          \* history: a goal was submitted after a land goal

vars == <<node, pc, error, goal, status, avail_roombas, odom, now,
          flight_start_time, gotten_roombas, got_roomba, search_state,
          track_state, roomba_id, d, last, sweep, first_wp,
          land_count, after_land>>

----------------------------------------------------------------------------
(* Bounds of the model *)

\* largest x coordinate (units of 0.5 m) of a roomba or of the vehicle
MaxCoord == 1

----------------------------------------------------------------------------
(* Program constants *)

\* 0.5 m, in units of 0.5 m
MIN_GOTO_DISTANCE == 1
TARGET_NUM_ROOMBAS == 2
\* 1 * 60 seconds
MAX_FLIGHT_DURATION == 60
\* SEARCH_POINTS.shape[0]
NUM_SEARCH_POINTS == 6

\* GoalStatus values the client can report for a goal it holds
GoalStatuses ==
    {"PENDING", "ACTIVE", "SUCCEEDED", "ABORTED", "REJECTED", "PREEMPTED",
     "RECALLED"}

\* get_state() of a client that has sent no goal
NoGoalStatus == "LOST"

----------------------------------------------------------------------------
(* Pure functions *)

\* did_task_fail without the ABORTED comparison
did_task_fail_no_aborted(state) ==
    \/ state = "REJECTED"
    \/ state = "PREEMPTED"
    \/ state = "RECALLED"

did_task_fail(state) ==
    \/ state = "ABORTED"
    \/ state = "REJECTED"
    \/ state = "PREEMPTED"
    \/ state = "RECALLED"

did_task_succeed(state) == state = "SUCCEEDED"

did_task_finish(state) == did_task_fail(state) \/ did_task_succeed(state)

\* squared planar distance between a roomba and the vehicle
roomba_distance(roomba_odom, drone_odom) ==
    LET x_diff == drone_odom.x - roomba_odom.x
        y_diff == drone_odom.y - roomba_odom.y
    IN  x_diff * x_diff + y_diff * y_diff

\* find_roomba_by_id without the identifier filter
find_roomba_unfiltered(roombas, desired_id) ==
    IF Len(roombas) = 0 THEN <<>> ELSE <<roombas[1]>>

\* None is <<>>, a found roomba r is <<r>>
find_roomba_by_id(roombas, desired_id) ==
    LET roomba_list ==
            SelectSeq(roombas, LAMBDA x : x.child_frame_id = desired_id)
    IN  IF Len(roomba_list) = 0 THEN <<>> ELSE <<roomba_list[1]>>

\* sorted(...)[0][1]: a roomba of least distance.  Equal distances are ordered
\* by comparing the Odometry objects, which is not fixed by the program, so
\* every roomba of least distance is a possible result.
target_roomba_law(roombas, drone_odom) ==
    {roombas[i] : i \in
        {j \in 1..Len(roombas) :
            \A k \in 1..Len(roombas) :
                roomba_distance(roombas[j], drone_odom)
                    <= roomba_distance(roombas[k], drone_odom)}}

\* line 175 wrapping to the home point
NextSearchStateWrapHome(s) == (s + 1) % NUM_SEARCH_POINTS

\* line 175: the cursor after a waypoint arrival with no roomba
NextSearchState(s) == IF s + 1 < NUM_SEARCH_POINTS THEN s + 1 ELSE 1

\* lines 164-165 without the test for 0
SearchEntryStateAlwaysOne(s) == 1

\* lines 164-165: the cursor on entry to search_for_roomba
SearchEntryState(s) == IF s # 0 THEN 1 ELSE s

\* line 180 left out
SearchExitStateKept(s) == s

\* line 180: the cursor when search_for_roomba returns
SearchExitState(s) == 1

\* line 202 with > for >=
DecideGotoStrict(dist) == dist > MIN_GOTO_DISTANCE * MIN_GOTO_DISTANCE

\* line 202: Decide chooses the translate goal
DecideGoto(dist) == dist >= MIN_GOTO_DISTANCE * MIN_GOTO_DISTANCE

\* line 223: Approaching switches to the track goal
CloseEnough(dist) == dist < MIN_GOTO_DISTANCE * MIN_GOTO_DISTANCE

\* line 260 with >= for >
MissionShouldBreakAtLimit(gotten, t, start) ==
    \/ gotten > TARGET_NUM_ROOMBAS
    \/ t >= start + MAX_FLIGHT_DURATION

\* lines 257-261: the loop of attempt_mission7 is left
MissionShouldBreak(gotten, t, start) ==
    \/ gotten > TARGET_NUM_ROOMBAS
    \/ t > start + MAX_FLIGHT_DURATION

----------------------------------------------------------------------------
(* Values *)

\* child_frame_id of the roombas, in the order the feed lists them
RoombaFrames == <<"roomba0", "roomba1">>
RoombaIds == {RoombaFrames[i] : i \in 1..Len(RoombaFrames)}
FrameIndex(id) == CHOOSE i \in 1..Len(RoombaFrames) : RoombaFrames[i] = id
Coords == 0..MaxCoord

\* one nav_msgs/Odometry entry of the roomba feed
Roombas == [child_frame_id : RoombaIds, x : Coords, y : {0}]

\* OdometryArray.data: the feed lists each roomba at most once, in feed order
Snapshots ==
    {s \in UNION {[1..n -> Roombas] : n \in 0..Len(RoombaFrames)} :
        \A i \in 1..Len(s) : \A j \in 1..Len(s) :
            i < j => FrameIndex(s[i].child_frame_id) < FrameIndex(s[j].child_frame_id)}

\* values of the clock the model samples: flight start, the limit, past it
TimePoints == {0, MAX_FLIGHT_DURATION, MAX_FLIGHT_DURATION + 1}

NoGoal ==
    [movement_type |-> "none", wp |-> -1, frame_id |-> "", time_to_track |-> 0]

TakeoffGoal == [NoGoal EXCEPT !.movement_type = "takeoff"]
LandGoal == [NoGoal EXCEPT !.movement_type = "land"]

\* construct_xyz_goal(SEARCH_POINTS[i])
WaypointGoal(i) == [NoGoal EXCEPT !.movement_type = "xyztranslate", !.wp = i]

\* construct_goto_roomba_goal(roomba); frame_id records which roomba's position
GotoRoombaGoal(id) ==
    [NoGoal EXCEPT !.movement_type = "xyztranslate", !.frame_id = id]

\* QuadMoveGoal(movement_type="track_roomba", ...); time_to_track 0 is the default
TrackRoombaGoal(id, time) ==
    [NoGoal EXCEPT !.movement_type = "track_roomba", !.frame_id = id,
                   !.time_to_track = time]

LONG_TRACK_TIME == 100000

Step(name, ops) ==
    [step |-> name, ops |-> ops, prev |-> status, ts |-> track_state]

EnvStep == [step |-> "env", ops |-> <<>>, prev |-> NoGoalStatus, ts |-> 0]

----------------------------------------------------------------------------
(* The action client *)

\* self._client.send_goal(g): the client drops the goal it held and tracks g
send_goal(g) ==
    /\ goal' = g
    /\ status' = "PENDING"
    /\ first_wp' = IF first_wp = -1 /\ g.wp # -1 THEN g.wp ELSE first_wp
    /\ land_count' =
           IF g.movement_type = "land" /\ land_count < 2
           THEN land_count + 1 ELSE land_count
    /\ after_land' = (after_land \/ (land_count > 0 /\ g.movement_type # "land"))

\* a step that calls nothing on the client
NoClientCall == UNCHANGED <<goal, status, first_wp, land_count, after_land>>

\* an exception leaves attempt_mission7: nothing catches it
Raise(name, exc) ==
    /\ pc' = "crashed"
    /\ error' = exc
    /\ last' = Step(name, <<>>)
    /\ NoClientCall
    /\ UNCHANGED <<node, avail_roombas, odom, now, flight_start_time,
                   gotten_roombas, got_roomba, search_state, track_state,
                   roomba_id, d, sweep>>

----------------------------------------------------------------------------
(* Init: Mission7() is about to be constructed *)

Init ==
    /\ node = [bond |-> "unknown", built |-> "none", shutdown |-> FALSE]
    /\ pc = "construct"
    /\ error = "none"
    /\ goal = NoGoal
    /\ status = NoGoalStatus
    /\ avail_roombas = [set |-> FALSE, data |-> <<>>]
    /\ odom = [set |-> FALSE, x |-> 0, y |-> 0]
    /\ now = 0
    /\ flight_start_time = 0
    /\ gotten_roombas = 0
    /\ got_roomba = FALSE
    /\ search_state = 0
    /\ track_state = 0
    /\ roomba_id = ""
    /\ d = 0
    /\ last = EnvStep
    /\ sweep = [prev |-> -1, how |-> "none"]
    /\ first_wp = -1
    /\ land_count = 0
    /\ after_land = FALSE

----------------------------------------------------------------------------
(* Mission7.__init__ *)

\* lines 109-114 with the result of form_bond() ignored
FormBondUnchecked ==
    /\ pc = "construct"
    /\ \E ok \in BOOLEAN :
           /\ node' = [node EXCEPT !.bond = IF ok THEN "ok" ELSE "failed"]
           /\ pc' = IF node.shutdown THEN "start" ELSE "wait_server"
           /\ UNCHANGED error
    /\ last' = Step("FormBond", <<>>)
    /\ NoClientCall
    /\ UNCHANGED <<avail_roombas, odom, now, flight_start_time, gotten_roombas,
                   got_roomba, search_state, track_state, roomba_id, d, sweep>>

\* lines 109-114: the assert on form_bond(), then the first shutdown test
FormBond ==
    /\ pc = "construct"
    /\ \E ok \in BOOLEAN :
           /\ node' = [node EXCEPT !.bond = IF ok THEN "ok" ELSE "failed"]
           /\ IF ~ok
              THEN pc' = "crashed" /\ error' = "AssertionError"
              ELSE /\ pc' = IF node.shutdown THEN "start" ELSE "wait_server"
                   /\ UNCHANGED error
    /\ last' = Step("FormBond", <<>>)
    /\ NoClientCall
    /\ UNCHANGED <<avail_roombas, odom, now, flight_start_time, gotten_roombas,
                   got_roomba, search_state, track_state, roomba_id, d, sweep>>

\* lines 118-128: the client exists once wait_for_server returns; the fields
\* and the subscribers only when no shutdown was requested by then
WaitForServer ==
    /\ pc = "wait_server"
    /\ node' = [node EXCEPT !.built = IF node.shutdown THEN "client" ELSE "full"]
    /\ pc' = "start"
    /\ last' = Step("WaitForServer", <<>>)
    /\ NoClientCall
    /\ UNCHANGED <<error, avail_roombas, odom, now, flight_start_time,
                   gotten_roombas, got_roomba, search_state, track_state,
                   roomba_id, d, sweep>>

----------------------------------------------------------------------------
(* attempt_mission7 *)

\* lines 244-246: read the clock, send the takeoff goal.  main (line 278)
\* calls it whatever __init__ built; without self._client line 144 raises.
AttemptStart ==
    /\ pc = "start"
    /\ IF node.built = "none"
       THEN Raise("AttemptStart", "AttributeError")
       ELSE /\ flight_start_time' = now
            /\ send_goal(TakeoffGoal)
            /\ pc' = "takeoff_wait"
            /\ last' = Step("AttemptStart", <<"send">>)
            /\ UNCHANGED <<node, error, avail_roombas, odom, now,
                           gotten_roombas, got_roomba, search_state,
                           track_state, roomba_id, d, sweep>>

\* lines 145-146, 248-249: wait_for_result returns on any terminal status,
\* and on shutdown (go_to_roomba.py tests is_shutdown after each such wait)
TakeoffDone ==
    /\ pc = "takeoff_wait"
    /\ did_task_finish(status) \/ node.shutdown
    /\ gotten_roombas' = 0
    /\ pc' = "search_enter"
    /\ last' = Step("TakeoffDone", <<>>)
    /\ NoClientCall
    /\ UNCHANGED <<node, error, avail_roombas, odom, now, flight_start_time,
                   got_roomba, search_state, track_state, roomba_id, d, sweep>>

\* lines 254-261: count the roomba, then the two break tests.  The frame of
\* track_roomba_to_completion is gone: its locals take their initial values.
TerminationCheck ==
    /\ pc = "term_check"
    /\ LET gotten == IF got_roomba THEN gotten_roombas + 1 ELSE gotten_roombas
       IN  /\ gotten_roombas' = gotten
           /\ pc' = IF MissionShouldBreak(gotten, now, flight_start_time)
                    THEN "land" ELSE "search_enter"
    /\ track_state' = 0
    /\ roomba_id' = ""
    /\ d' = 0
    /\ last' = Step("TerminationCheck", <<>>)
    /\ NoClientCall
    /\ UNCHANGED <<node, error, avail_roombas, odom, now, flight_start_time,
                   got_roomba, search_state, sweep>>

\* line 264, basic_goal line 144
Land ==
    /\ pc = "land"
    /\ send_goal(LandGoal)
    /\ pc' = "land_wait"
    /\ last' = Step("Land", <<"send">>)
    /\ UNCHANGED <<node, error, avail_roombas, odom, now, flight_start_time,
                   gotten_roombas, got_roomba, search_state, track_state,
                   roomba_id, d, sweep>>

\* the land goal inside the loop: the loop goes on after it
LandDoneInsideLoop ==
    /\ pc = "land_wait"
    /\ did_task_finish(status)
    /\ pc' = "search_enter"
    /\ last' = Step("LandDone", <<>>)
    /\ NoClientCall
    /\ UNCHANGED <<node, error, avail_roombas, odom, now, flight_start_time,
                   gotten_roombas, got_roomba, search_state, track_state,
                   roomba_id, d, sweep>>

\* basic_goal lines 145-146
LandDone ==
    /\ pc = "land_wait"
    /\ did_task_finish(status) \/ node.shutdown
    /\ pc' = "done"
    /\ last' = Step("LandDone", <<>>)
    /\ NoClientCall
    /\ UNCHANGED <<node, error, avail_roombas, odom, now, flight_start_time,
                   gotten_roombas, got_roomba, search_state, track_state,
                   roomba_id, d, sweep>>

----------------------------------------------------------------------------
(* search_for_roomba and wait_for_roomba *)

\* lines 162-165; self._search_state exists only if __init__ ran to its end
SearchEnter ==
    /\ pc = "search_enter"
    /\ IF node.built # "full"
       THEN Raise("SearchEnter", "AttributeError")
       ELSE /\ search_state' = SearchEntryState(search_state)
            /\ pc' = "search_send"
            /\ last' = Step("SearchEnter", <<>>)
            /\ NoClientCall
            /\ UNCHANGED <<node, error, avail_roombas, odom, now,
                           flight_start_time, gotten_roombas, got_roomba,
                           track_state, roomba_id, d, sweep>>

\* line 169, begin_translate with USE_PLANNER
BeginTranslate ==
    /\ pc = "search_send"
    /\ send_goal(WaypointGoal(search_state))
    /\ sweep' = [sweep EXCEPT !.prev =
                      IF sweep.how \in {"failed", "arrived"} THEN goal.wp ELSE -1]
    /\ pc' = "wait_poll"
    /\ last' = Step("BeginTranslate", <<"send">>)
    /\ UNCHANGED <<node, error, avail_roombas, odom, now, flight_start_time,
                   gotten_roombas, got_roomba, search_state, track_state,
                   roomba_id, d>>

\* WaitPoll without the `continue` of line 172: a failed translate falls
\* through to the advance of line 175
WaitPollAdvanceOnFailure ==
    /\ pc = "wait_poll"
    /\ IF did_task_fail(status)
       THEN /\ pc' = "search_send"
            /\ sweep' = [sweep EXCEPT !.how = "failed"]
            /\ search_state' = NextSearchState(search_state)
       ELSE IF did_task_succeed(status)
       THEN /\ pc' = "search_send"
            /\ sweep' = [sweep EXCEPT !.how = "arrived"]
            /\ search_state' = NextSearchState(search_state)
       ELSE /\ pc' = "wait_check"
            /\ UNCHANGED <<sweep, search_state>>
    /\ last' = Step("WaitPoll", <<>>)
    /\ NoClientCall
    /\ UNCHANGED <<node, error, avail_roombas, odom, now, flight_start_time,
                   gotten_roombas, got_roomba, track_state, roomba_id, d>>

\* lines 151-154 and their returns into lines 170-175.  The two get_state()
\* calls are one read: a status change between them gives the result of a
\* single read of the earlier or of the later status.
WaitPoll ==
    /\ pc = "wait_poll"
    /\ IF did_task_fail(status)
       THEN /\ pc' = "search_send"
            /\ sweep' = [sweep EXCEPT !.how = "failed"]
            /\ UNCHANGED search_state
       ELSE IF did_task_succeed(status)
       THEN /\ pc' = "search_send"
            /\ sweep' = [sweep EXCEPT !.how = "arrived"]
            /\ search_state' = NextSearchState(search_state)
       ELSE /\ pc' = "wait_check"
            /\ UNCHANGED <<sweep, search_state>>
    /\ last' = Step("WaitPoll", <<>>)
    /\ NoClientCall
    /\ UNCHANGED <<node, error, avail_roombas, odom, now, flight_start_time,
                   gotten_roombas, got_roomba, track_state, roomba_id, d>>

\* line 155, then rate.sleep() when no roomba is listed; rate.sleep() raises
\* once shutdown is requested
WaitCheck ==
    /\ pc = "wait_check"
    /\ IF ~avail_roombas.set
       THEN Raise("WaitCheck", "AttributeError")
       ELSE IF Len(avail_roombas.data) = 0 /\ node.shutdown
       THEN Raise("WaitCheck", "ROSInterruptException")
       ELSE /\ pc' = IF Len(avail_roombas.data) > 0
                     THEN "wait_select" ELSE "wait_poll"
            /\ last' = Step("WaitCheck", <<>>)
            /\ NoClientCall
            /\ UNCHANGED <<node, error, avail_roombas, odom, now, flight_start_time,
                           gotten_roombas, got_roomba, search_state,
                           track_state, roomba_id, d, sweep>>

\* lines 156-158 read the snapshot again; then lines 170-181 return the roomba
WaitSelect ==
    /\ pc = "wait_select"
    /\ IF ~odom.set
       THEN Raise("WaitSelect", "AttributeError")
       ELSE IF Len(avail_roombas.data) = 0
       THEN Raise("WaitSelect", "IndexError")
       ELSE /\ \E target_roomba \in target_roomba_law(avail_roombas.data, odom) :
                   roomba_id' = target_roomba.child_frame_id
            /\ search_state' = SearchExitState(search_state)
            /\ sweep' = [prev |-> -1, how |-> "acquired"]
            /\ pc' = "searched"
            /\ last' = Step("WaitSelect", <<>>)
            /\ NoClientCall
            /\ UNCHANGED <<node, error, avail_roombas, odom, now, flight_start_time,
                           gotten_roombas, got_roomba, track_state, d>>

----------------------------------------------------------------------------
(* track_roomba_to_completion *)

\* lines 184-188
TrackEnter ==
    /\ pc = "searched"
    /\ track_state' = 0
    /\ pc' = "track_resolve"
    /\ last' = Step("TrackEnter", <<>>)
    /\ NoClientCall
    /\ UNCHANGED <<node, error, avail_roombas, odom, now, flight_start_time,
                   gotten_roombas, got_roomba, search_state, roomba_id, d,
                   sweep>>

\* lines 190-195: one read of the snapshot, return False or compute d
TrackResolve ==
    /\ pc = "track_resolve"
    /\ IF ~avail_roombas.set \/ ~odom.set
       THEN Raise("TrackResolve", "AttributeError")
       ELSE LET roomba == find_roomba_by_id(avail_roombas.data, roomba_id)
            IN  /\ IF roomba = <<>>
                   THEN /\ got_roomba' = FALSE
                        /\ pc' = "term_check"
                        /\ UNCHANGED d
                   ELSE /\ d' = roomba_distance(roomba[1], odom)
                        /\ pc' = "track_decide"
                        /\ UNCHANGED got_roomba
                /\ last' = Step("TrackResolve", <<>>)
                /\ NoClientCall
                /\ UNCHANGED <<node, error, avail_roombas, odom, now,
                               flight_start_time, gotten_roombas, search_state,
                               track_state, roomba_id, sweep>>

\* lines 198-211
TrackDecide ==
    /\ pc = "track_decide"
    /\ IF track_state = 0
       THEN /\ IF DecideGoto(d)
               THEN /\ send_goal(GotoRoombaGoal(roomba_id))
                    /\ track_state' = 1
               ELSE /\ send_goal(TrackRoombaGoal(roomba_id, 0))
                    /\ track_state' = 2
            /\ last' = Step("TrackDecide", <<"send">>)
       ELSE /\ NoClientCall
            /\ last' = Step("TrackDecide", <<>>)
            /\ UNCHANGED track_state
    /\ pc' = "track_approach"
    /\ UNCHANGED <<node, error, avail_roombas, odom, now, flight_start_time,
                   gotten_roombas, got_roomba, search_state, roomba_id, d, sweep>>

\* lines 214-229.  The get_state() calls of lines 215-219 are one read.
TrackApproach ==
    /\ pc = "track_approach"
    /\ IF track_state = 1
       THEN IF CloseEnough(d)
            THEN /\ send_goal(TrackRoombaGoal(roomba_id, LONG_TRACK_TIME))
                 /\ track_state' = 2
                 /\ last' = Step("TrackApproach", <<"cancel", "send">>)
            ELSE /\ track_state' =
                        IF did_task_succeed(status) \/ did_task_fail(status)
                        THEN 0 ELSE 1
                 /\ last' = Step("TrackApproach", <<>>)
                 /\ NoClientCall
       ELSE /\ NoClientCall
            /\ last' = Step("TrackApproach", <<>>)
            /\ UNCHANGED track_state
    /\ pc' = "track_tracking"
    /\ UNCHANGED <<node, error, avail_roombas, odom, now, flight_start_time,
                   gotten_roombas, got_roomba, search_state, roomba_id, d,
                   sweep>>

\* TrackTracking with a `return True` when the track goal has succeeded:
\* the roomba would be counted by line 256
TrackTrackingReturnsTrue ==
    /\ pc = "track_tracking"
    /\ IF node.shutdown
       THEN Raise("TrackTracking", "ROSInterruptException")
       ELSE /\ IF track_state = 2 /\ did_task_succeed(status)
               THEN /\ got_roomba' = TRUE
                    /\ pc' = "term_check"
                    /\ UNCHANGED track_state
               ELSE /\ track_state' =
                           IF track_state = 2 /\ did_task_finish(status)
                           THEN 0 ELSE track_state
                    /\ pc' = "track_resolve"
                    /\ UNCHANGED got_roomba
            /\ last' = Step("TrackTracking", <<>>)
            /\ NoClientCall
            /\ UNCHANGED <<node, error, avail_roombas, odom, now,
                           flight_start_time, gotten_roombas,
                           search_state, roomba_id, d, sweep>>

\* lines 231-239, then rate.sleep(), which raises once shutdown is requested
TrackTracking ==
    /\ pc = "track_tracking"
    /\ IF node.shutdown
       THEN Raise("TrackTracking", "ROSInterruptException")
       ELSE /\ track_state' =
                   IF track_state = 2 /\ did_task_finish(status)
                   THEN 0 ELSE track_state
            /\ pc' = "track_resolve"
            /\ last' = Step("TrackTracking", <<>>)
            /\ NoClientCall
            /\ UNCHANGED <<node, error, avail_roombas, odom, now,
                           flight_start_time, gotten_roombas, got_roomba,
                           search_state, roomba_id, d, sweep>>

----------------------------------------------------------------------------
(* The environment.  An uncaught exception ends the process, and with it  *)
(* the callbacks and the clock reads.  A node that is shut down receives   *)
(* no message: no feed delivery and no goal status.                        *)

\* the motion planner moves the client's goal towards a terminal status
GoalProgress ==
    /\ pc # "crashed"
    /\ ~node.shutdown
    /\ \/ /\ status = "PENDING"
          /\ status' \in {"ACTIVE", "REJECTED", "RECALLED"}
       \/ /\ status = "ACTIVE"
          /\ status' \in {"SUCCEEDED", "ABORTED", "PREEMPTED"}
    /\ last' = EnvStep
    /\ UNCHANGED <<node, pc, error, goal, avail_roombas, odom, now, flight_start_time,
                   gotten_roombas, got_roomba, search_state, track_state,
                   roomba_id, d, sweep, first_wp, land_count,
                   after_land>>

\* lines 130-131
roomba_callback ==
    /\ pc # "crashed"
    /\ node.built = "full" /\ ~node.shutdown
    /\ \E data \in Snapshots : avail_roombas' = [set |-> TRUE, data |-> data]
    /\ last' = EnvStep
    /\ UNCHANGED <<node, pc, error, goal, status, odom, now, flight_start_time,
                   gotten_roombas, got_roomba, search_state, track_state,
                   roomba_id, d, sweep, first_wp, land_count,
                   after_land>>

\* lines 133-134
odom_callback ==
    /\ pc # "crashed"
    /\ node.built = "full" /\ ~node.shutdown
    /\ \E x \in Coords : odom' = [set |-> TRUE, x |-> x, y |-> 0]
    /\ last' = EnvStep
    /\ UNCHANGED <<node, pc, error, goal, status, avail_roombas, now,
                   flight_start_time, gotten_roombas, got_roomba, search_state,
                   track_state, roomba_id, d, sweep, first_wp,
                   land_count, after_land>>

\* rospy.Time.now() grows between two reads
Tick ==
    /\ pc # "crashed"
    /\ \E t \in TimePoints : t > now /\ now' = t
    /\ last' = EnvStep
    /\ UNCHANGED <<node, pc, error, goal, status, avail_roombas, odom,
                   flight_start_time, gotten_roombas, got_roomba, search_state,
                   track_state, roomba_id, d, sweep, first_wp,
                   land_count, after_land>>

\* rospy.is_shutdown() becomes true (a signal, or the master's request)
Shutdown ==
    /\ pc \notin {"crashed", "done"}
    /\ ~node.shutdown
    /\ node' = [node EXCEPT !.shutdown = TRUE]
    /\ last' = EnvStep
    /\ UNCHANGED <<pc, error, goal, status, avail_roombas, odom, now,
                   flight_start_time, gotten_roombas, got_roomba, search_state,
                   track_state, roomba_id, d, sweep, first_wp, land_count,
                   after_land>>

----------------------------------------------------------------------------
(* Specifications *)

Control ==
    \/ FormBond
    \/ WaitForServer
    \/ AttemptStart
    \/ TakeoffDone
    \/ SearchEnter
    \/ BeginTranslate
    \/ WaitPoll
    \/ WaitCheck
    \/ WaitSelect
    \/ TrackEnter
    \/ TrackResolve
    \/ TrackDecide
    \/ TrackApproach
    \/ TrackTracking
    \/ TerminationCheck
    \/ Land
    \/ LandDone

Next ==
    \/ Control
    \/ GoalProgress
    \/ roomba_callback
    \/ odom_callback
    \/ Tick

\* the runs in which no shutdown is requested
Spec == Init /\ [][Next]_vars

\* all runs: shutdown may be requested at any moment
NextOrShutdown ==
    \/ Next
    \/ Shutdown

ShutdownSpec == Init /\ [][NextOrShutdown]_vars

----------------------------------------------------------------------------
(* target_roomba_law on its own: every snapshot of up to three roombas, in  *)
(* every order, and every vehicle pose                                     *)

LawFrames == {"roomba0", "roomba1", "roomba2"}

LawSnapshots ==
    {s \in UNION {[1..n -> [child_frame_id : LawFrames, x : Coords, y : {0}]] :
                      n \in 0..Cardinality(LawFrames)} :
        \A i \in 1..Len(s) : \A j \in 1..Len(s) :
            i # j => s[i].child_frame_id # s[j].child_frame_id}

LawInit ==
    /\ node = [bond |-> "ok", built |-> "full", shutdown |-> FALSE]
    /\ pc = "law_call"
    /\ error = "none"
    /\ goal = NoGoal
    /\ status = NoGoalStatus
    /\ \E data \in LawSnapshots : avail_roombas = [set |-> TRUE, data |-> data]
    /\ \E x \in Coords : odom = [set |-> TRUE, x |-> x, y |-> 0]
    /\ now = 0
    /\ flight_start_time = 0
    /\ gotten_roombas = 0
    /\ got_roomba = FALSE
    /\ search_state = 0
    /\ track_state = 0
    /\ roomba_id = ""
    /\ d = 0
    /\ last = EnvStep
    /\ sweep = [prev |-> -1, how |-> "none"]
    /\ first_wp = -1
    /\ land_count = 0
    /\ after_land = FALSE

\* lines 39-42: sorted(...)[0] of an empty list raises IndexError; else the
\* result's identifier and its distance are recorded
LawApply ==
    /\ pc = "law_call"
    /\ IF Len(avail_roombas.data) = 0
       THEN Raise("target_roomba_law", "IndexError")
       ELSE /\ \E target_roomba \in target_roomba_law(avail_roombas.data, odom) :
                   /\ roomba_id' = target_roomba.child_frame_id
                   /\ d' = roomba_distance(target_roomba, odom)
            /\ pc' = "law_done"
            /\ last' = Step("target_roomba_law", <<>>)
            /\ NoClientCall
            /\ UNCHANGED <<node, error, avail_roombas, odom, now,
                           flight_start_time, gotten_roombas, got_roomba,
                           search_state, track_state, sweep>>

LawSpec == LawInit /\ [][LawApply]_vars

\* the control thread keeps being scheduled and goals keep reaching terminal
\* outcomes; nothing is assumed of the feeds
FairSpec == Spec /\ WF_vars(Control) /\ WF_vars(GoalProgress)

----------------------------------------------------------------------------
(* Claims *)

\* the terminal goal outcomes
Terminal == {"SUCCEEDED", "ABORTED", "REJECTED", "PREEMPTED", "RECALLED"}

\* the step just taken submitted a goal
Submitted == last.ops # <<>> /\ last.ops[Len(last.ops)] = "send"

\* C1: a goal is submitted only when the goal submitted before it is already
\* terminal (or there is none), or was cancelled first.
C1_SubmitOnlyAfterTerminalOrCancel ==
    Submitted =>
        \/ last.prev \in Terminal
        \/ last.prev = NoGoalStatus
        \/ last.ops = <<"cancel", "send">>

\* C2 as claimed: at the termination check the loop is left exactly when the
\* acquired count exceeds TARGET_NUM_ROOMBAS or the elapsed time is at least
\* MAX_FLIGHT_DURATION.
C2_BreakAtOrPastLimit ==
    last.step = "TerminationCheck" =>
        (pc = "land" <=>
            \/ gotten_roombas > TARGET_NUM_ROOMBAS
            \/ now - flight_start_time >= MAX_FLIGHT_DURATION)

\* C2 amended: at the termination check the loop is left exactly when the
\* acquired count exceeds TARGET_NUM_ROOMBAS or the elapsed time is strictly
\* greater than MAX_FLIGHT_DURATION; at exactly MAX_FLIGHT_DURATION it stays.
C2_BreakPastLimit ==
    last.step = "TerminationCheck" =>
        /\ pc \in {"land", "search_enter"}
        /\ pc = "land" <=>
               \/ gotten_roombas > TARGET_NUM_ROOMBAS
               \/ now - flight_start_time > MAX_FLIGHT_DURATION

C2_Witness ==
    /\ last.step = "TerminationCheck"
    /\ now - flight_start_time = MAX_FLIGHT_DURATION
    /\ pc = "search_enter"

\* C3: once the elapsed time exceeds MAX_FLIGHT_DURATION a land goal is
\* eventually submitted, as long as the control thread runs.
C3_LandOncePastLimit ==
    [](pc # "start" /\ now - flight_start_time > MAX_FLIGHT_DURATION
          => <>(land_count > 0 \/ pc = "crashed"))

\* C4: the land goal is submitted at most once, only after the loop is left,
\* exactly once when the mission is past the loop, and no goal follows it.
C4_LandOnceAfterLoop ==
    /\ land_count <= 1
    /\ ~after_land
    /\ land_count = 1 <=> pc \in {"land_wait", "done"}
    /\ pc \in {"land_wait", "done"} => goal = LandGoal

C4_Witness == pc = "done" /\ land_count = 1 /\ goal = LandGoal

\* the tracked identifier is in no entry of the snapshot
Absent ==
    \A i \in 1..Len(avail_roombas.data) :
        avail_roombas.data[i].child_frame_id # roomba_id

\* C5: a tick of track_roomba_to_completion that reads a snapshot without the
\* tracked identifier returns False on that tick, in every sub-state, and
\* submits no goal.
C5_AbsentReturnsFalse ==
    last.step = "TrackResolve" /\ error = "none" /\ Absent =>
        /\ pc = "term_check"
        /\ got_roomba = FALSE
        /\ last.ops = <<>>
        /\ last.prev = status

C5_Witness ==
    /\ last.step = "TrackResolve"
    /\ Absent
    /\ Len(avail_roombas.data) > 0
    /\ last.ts = 1
    /\ pc = "term_check"
    /\ got_roomba = FALSE

\* C6: Decide submits the translate-to-target goal and becomes Approaching
\* when d >= MIN_GOTO_DISTANCE, else submits the track goal and becomes
\* Tracking; Approaching with d < MIN_GOTO_DISTANCE cancels, then submits the
\* track goal and becomes Tracking, whatever the status of the goal.
C6_DecideAndApproach ==
    /\ last.step = "TrackDecide" /\ last.ts = 0 =>
           /\ last.ops = <<"send">>
           /\ IF d >= MIN_GOTO_DISTANCE * MIN_GOTO_DISTANCE
              THEN goal = GotoRoombaGoal(roomba_id) /\ track_state = 1
              ELSE /\ goal.movement_type = "track_roomba"
                   /\ goal.frame_id = roomba_id
                   /\ track_state = 2
    /\ last.step = "TrackApproach" /\ last.ts = 1
         /\ d < MIN_GOTO_DISTANCE * MIN_GOTO_DISTANCE =>
           /\ last.ops = <<"cancel", "send">>
           /\ goal.movement_type = "track_roomba"
           /\ goal.frame_id = roomba_id
           /\ track_state = 2

C6_Witness ==
    /\ last.step = "TrackApproach"
    /\ last.ts = 1
    /\ d < MIN_GOTO_DISTANCE * MIN_GOTO_DISTANCE
    /\ last.prev \in Terminal
    /\ last.ops = <<"cancel", "send">>
    /\ track_state = 2

\* C7 as claimed: Approaching with a Succeeded or Failed goal always goes back
\* to Decide, and the function does not return.
C7_FinishedGoalBackToDecide ==
    last.step = "TrackApproach" /\ last.ts = 1 /\ last.prev \in Terminal =>
        pc = "track_tracking" /\ track_state = 0

\* C7 amended: Approaching with a Succeeded or Failed goal and
\* d >= MIN_GOTO_DISTANCE goes back to Decide, submits nothing, and stays in
\* Decide to the end of the tick; with d < MIN_GOTO_DISTANCE it becomes
\* Tracking.  The function returns in neither case.
C7_FinishedGoalFarBackToDecide ==
    /\ last.step = "TrackApproach" /\ last.ts = 1 /\ last.prev \in Terminal =>
           /\ pc = "track_tracking"
           /\ IF d >= MIN_GOTO_DISTANCE * MIN_GOTO_DISTANCE
              THEN track_state = 0 /\ last.ops = <<>>
              ELSE track_state = 2
    /\ last.step = "TrackTracking" /\ last.ts = 0 =>
           /\ track_state = 0
           /\ pc # "term_check"
           /\ error = "none" => pc = "track_resolve"

C7_Witness ==
    /\ last.step = "TrackApproach"
    /\ last.ts = 1
    /\ last.prev = "ABORTED"
    /\ track_state = 0
    /\ pc = "track_tracking"

\* C8 as claimed: no translate goal after the first one goes to waypoint 0,
\* and after an arrival the next waypoint is the next index, 1 after the last.
C8_NeverHomeAfterFirstStep ==
    last.step = "BeginTranslate" =>
        /\ sweep.how # "none" => goal.wp # 0
        /\ sweep.how = "arrived" =>
               goal.wp = IF sweep.prev < NUM_SEARCH_POINTS - 1
                         THEN sweep.prev + 1 ELSE 1

\* C8 amended: a translate goal goes to waypoint 0 only as the first search
\* step or as the retry of a failed translate to waypoint 0, never after an
\* arrival or an acquisition; after an arrival the next waypoint is the next
\* index, 1 after the last; after a failure it is the same waypoint.
C8_HomeOnlyUntilFirstArrival ==
    last.step = "BeginTranslate" =>
        /\ goal.wp \in 0..(NUM_SEARCH_POINTS - 1)
        /\ goal.wp = 0 =>
               \/ sweep.how = "none"
               \/ sweep.how = "failed" /\ sweep.prev = 0
        /\ sweep.how = "arrived" =>
               goal.wp = IF sweep.prev < NUM_SEARCH_POINTS - 1
                         THEN sweep.prev + 1 ELSE 1
        /\ sweep.how = "failed" => goal.wp = sweep.prev

C8_Witness ==
    /\ last.step = "BeginTranslate"
    /\ sweep.how = "arrived"
    /\ sweep.prev = NUM_SEARCH_POINTS - 1
    /\ goal.wp = 1

\* C9 as claimed: the first translate goal of the search goes to waypoint 1.
C9_FirstWaypointIsOne == first_wp \in {-1, 1}

\* C9 amended: with the cursor at its initial value 0, the first translate
\* goal of the search goes to the home point, waypoint 0.
C9_FirstWaypointIsHome == first_wp \in {-1, 0}

C9_Witness ==
    /\ last.step = "BeginTranslate"
    /\ sweep.how = "none"
    /\ first_wp = 0
    /\ goal = WaypointGoal(0)

\* C10: when search_for_roomba returns a roomba the cursor is 1, and the first
\* translate goal of the next search goes to waypoint 1.
C10_CursorOneAfterAcquisition ==
    /\ pc = "searched" => search_state = 1
    /\ last.step = "BeginTranslate" /\ sweep.how = "acquired" => goal.wp = 1

C10_Witness ==
    /\ last.step = "BeginTranslate"
    /\ sweep.how = "acquired"
    /\ goal.wp = 1
    /\ last.prev \notin Terminal

\* an acquisition at the last waypoint of the sweep
C10_AcquiredAtLastWaypoint ==
    /\ pc = "searched"
    /\ goal = WaypointGoal(NUM_SEARCH_POINTS - 1)
    /\ search_state = 1

\* the least squared distance from the vehicle to a roomba of the snapshot
LeastDistance ==
    CHOOSE m \in {roomba_distance(avail_roombas.data[i], odom) :
                     i \in 1..Len(avail_roombas.data)} :
        \A k \in 1..Len(avail_roombas.data) :
            m <= roomba_distance(avail_roombas.data[k], odom)

\* the first position of the snapshot whose roomba is at the least distance
FirstNearest ==
    CHOOSE i \in 1..Len(avail_roombas.data) :
        /\ roomba_distance(avail_roombas.data[i], odom) = LeastDistance
        /\ \A j \in 1..(i - 1) :
               roomba_distance(avail_roombas.data[j], odom) # LeastDistance

\* C11: on a non-empty snapshot target_roomba_law returns a roomba of least
\* distance, and among several of them the first in snapshot order.
C11_NearestFirstOnTies ==
    pc = "law_done" =>
        /\ d = LeastDistance
        /\ roomba_id = avail_roombas.data[FirstNearest].child_frame_id

\* C11, the part that holds: the result is a roomba of the snapshot at the
\* least distance.
C11_NearestHolds ==
    pc = "law_done" =>
        /\ d = LeastDistance
        /\ \E i \in 1..Len(avail_roombas.data) :
               /\ avail_roombas.data[i].child_frame_id = roomba_id
               /\ roomba_distance(avail_roombas.data[i], odom) = d

\* C12: in search_for_roomba a failed translate goal leaves the cursor where
\* it is and the next goal sent is a translate to the same waypoint; inside
\* the sweep loop the cursor moves only on a poll that found the translate
\* goal succeeded, which returns no target and goes on to the next waypoint.
C12_FailedRetriesSameWaypoint ==
    /\ (last.step = "WaitPoll" /\ did_task_fail(last.prev)) =>
           /\ pc = "search_send"
           /\ search_state = goal.wp
           /\ sweep.how = "failed"
    /\ (last.step = "BeginTranslate" /\ sweep.how = "failed") =>
           /\ Submitted
           /\ goal.movement_type = "xyztranslate"
           /\ goal.wp = sweep.prev
           /\ goal.wp = search_state
    /\ (last.step \in {"WaitPoll", "WaitCheck"} /\ search_state # goal.wp) =>
           /\ last.step = "WaitPoll"
           /\ did_task_succeed(last.prev)
           /\ pc = "search_send"
           /\ search_state = NextSearchState(goal.wp)

\* a translate to waypoint 2 failed and was sent again to waypoint 2
C12_Witness ==
    /\ last.step = "BeginTranslate"
    /\ sweep.how = "failed"
    /\ sweep.prev = 2
    /\ goal.wp = 2
    /\ search_state = 2

\* a step taken with the shutdown request already made (a Shutdown step
\* resets the step label, so a labelled state with shutdown set was reached
\* by a control step that ran after the request)
AfterShutdown == node.shutdown /\ last.step # "env"

\* C13: once shutdown is requested the mission sends no further takeoff,
\* translate, go-to-roomba or track goal.
C13_NoFlightGoalAfterShutdown ==
    ~(/\ AfterShutdown
      /\ Submitted
      /\ goal.movement_type \in {"takeoff", "xyztranslate", "track_roomba"})

\* the acquisition loop of attempt_mission7 has just been left: through the
\* break of line 261, or through the ROSInterruptException that rate.sleep()
\* raises once shutdown is requested
LoopExited ==
    \/ last.step = "TerminationCheck" /\ pc = "land"
    \/ pc = "crashed" /\ error = "ROSInterruptException"

\* C14: when the control loop is exited, by shutdown or through the return
\* of track_roomba_to_completion and the break, the goal sent last is in a
\* terminal state (a cancel is only ever issued together with the send of a
\* new goal, so no goal sent last is a cancelled one).
C14_NoLiveGoalAtLoopExit ==
    (LoopExited /\ goal # NoGoal) => status \in Terminal

\* C15: a goal is sent only after form_bond() reported success; when it
\* reports failure the constructor's assert stops the mission with no goal
\* ever sent, the takeoff goal included.
C15_NoGoalWithoutBond ==
    /\ (Submitted \/ goal # NoGoal \/ status # NoGoalStatus) => node.bond = "ok"
    /\ node.bond = "failed" =>
           /\ pc = "crashed"
           /\ error = "AssertionError"
           /\ goal = NoGoal

\* the handshake failed and the mission stopped with nothing sent
C15_Witness ==
    /\ node.bond = "failed"
    /\ last.step = "FormBond"
    /\ pc = "crashed"
    /\ goal = NoGoal

\* C16: the takeoff goal is the first goal sent, the first translate goal of
\* the search is sent only over a takeoff goal that has reached a terminal
\* state, and the wait for the takeoff goal ends in the search whatever that
\* terminal state is.
C16_SearchAfterTakeoffTerminal ==
    /\ (Submitted /\ last.prev = NoGoalStatus) =>
           last.step = "AttemptStart" /\ goal = TakeoffGoal
    /\ last.step = "TakeoffDone" =>
           pc = "search_enter" /\ goal = TakeoffGoal
    /\ (last.step = "BeginTranslate" /\ sweep.how = "none") =>
           last.prev \in Terminal

\* C17: target_roomba_law applied to an empty snapshot returns, with no
\* target chosen and no exception raised.
C17_EmptySnapshotReturnsNothing ==
    (Len(avail_roombas.data) = 0 /\ pc # "law_call") =>
        /\ pc = "law_done"
        /\ error = "none"
        /\ roomba_id = ""

\* C18: track_roomba_to_completion never returns True, so gotten_roombas is
\* 0 in every state, the function is left only by its `return False` on an
\* absent roomba, and the acquisition loop is left only by the elapsed-time
\* test.
C18_NeverCountsARoomba ==
    /\ got_roomba = FALSE
    /\ gotten_roombas = 0
    /\ (pc = "term_check" /\ last.step # "env") =>
           last.step = "TrackResolve" /\ Absent
    /\ (last.step = "TerminationCheck" /\ pc = "land") =>
           /\ ~(gotten_roombas > TARGET_NUM_ROOMBAS)
           /\ now > flight_start_time + MAX_FLIGHT_DURATION

\* the loop was left through the elapsed-time test with nothing counted
C18_Witness ==
    /\ last.step = "TerminationCheck"
    /\ pc = "land"
    /\ gotten_roombas = 0
    /\ now > flight_start_time + MAX_FLIGHT_DURATION

\* C19: a polling tick of wait_for_roomba that found the snapshot non-empty
\* never calls target_roomba_law on an empty one, whatever roomba_callback
\* does between the test and the call (the call is made once both of its
\* arguments, the snapshot and the pose, have been read).
C19_SelectionNeverOnEmptySnapshot ==
    (last.step = "WaitSelect" /\ odom.set) => Len(avail_roombas.data) > 0

\* C20: every read of the snapshot in wait_for_roomba and in
\* track_roomba_to_completion, and every read of the pose, finds a value
\* that the constructor or a feed callback has set.
C20_ReadsFindDefinedValues ==
    /\ last.step \in {"WaitCheck", "WaitSelect", "TrackResolve"} =>
           avail_roombas.set
    /\ last.step \in {"WaitSelect", "TrackResolve"} => odom.set

====
